---- MODULE Spec2Model ----
(***************************************************************************)
(* UCT Monte Carlo tree search and the self-play driver of MonteCarlo.py.   *)
(*                                                                         *)
(* The tree is a sequence of Node records addressed by their index (the    *)
(* root is node 1); Python's None is 0.  UCT and UCTPlayGame are modelled  *)
(* statement block by statement block, with upc and dpc as their program   *)
(* counters.  The rules engine (board.TakBoard) is not part of the source  *)
(* file; it is modelled after the Game State contract as a family of small *)
(* two-player games.                                                       *)
(***************************************************************************)
EXTENDS Integers, Sequences, FiniteSets, TLC

\* ----------------------------------------------------------------- bounds
\* largest itermax a direct caller of UCT passes
MaxIter == 6
\* the iteration budget UCTPlayGame passes to UCT (1000 in the source)
PlayIterMax == 4
\* largest initial heap of the take-away games
MaxPile == 4
\* width of the policy vector / size of the move space (1575 in the source)
K == 2

\* ------------------------------------------------------------ Python bits
None == 0
NoMove == -1
Bool2Int(b) == IF b THEN 1 ELSE 0
Last(s) == s[Len(s)]
\* list.remove(x): drops the first occurrence of x
RECURSIVE ListRemove(_, _)
ListRemove(s, x) ==
    IF s = <<>> THEN <<>>
    ELSE IF Head(s) = x THEN Tail(s)
    ELSE <<Head(s)>> \o ListRemove(Tail(s), x)

\* sorted(pairs, key = first component): the stable ascending order Python's
\* sorted() produces.  The element at index j goes to the place that counts
\* the elements with a smaller key and the elements with an equal key that
\* are not after it.
sorted(s) ==
    LET n == Len(s)
        Place(j) == Cardinality({h \in 1..n : s[h][1] < s[j][1]})
                      + Cardinality({h \in 1..j : s[h][1] = s[j][1]})
    IN [p \in 1..n |-> s[CHOOSE j \in 1..n : Place(j) = p]]

\* ------------------------------------------------- Game State (TakBoard)
\* A position is [kind, n, player1_turn, white_win, black_win].
\*   "ab"     : n plies to go, two legal moves; move 1 (B) loses at once for
\*              the player who makes it, move 0 (A) goes one ply on and wins
\*              for the player who makes it on the last ply (so with n = 1,
\*              A is an immediate win and B an immediate loss)
\*   "nim"    : a heap of n; move k takes k+1; taking the last one wins
\*   "misere" : as nim, but taking the last one loses
MoveA == 0
MoveB == 1

Terminal(s) == s.white_win \/ s.black_win

RECURSIVE MovesUpTo(_)
MovesUpTo(k) == IF k <= 0 THEN <<>> ELSE Append(MovesUpTo(k - 1), k - 1)

Min(a, b) == IF a <= b THEN a ELSE b

get_plays(s) ==
    IF Terminal(s) THEN <<>>
    ELSE IF s.kind = "ab" THEN <<MoveA, MoveB>>
    ELSE MovesUpTo(Min(K, s.n))

exec_move(s, mv) ==
    LET left == IF s.kind = "ab"
                THEN (IF mv = MoveA THEN s.n - 1 ELSE 0)
                ELSE s.n - (mv + 1)
        over == left = 0
        moverWins == IF s.kind = "ab" THEN mv = MoveA ELSE s.kind = "nim"
        whiteWins == over /\ (moverWins <=> s.player1_turn)
    IN [kind |-> s.kind, n |-> left, player1_turn |-> ~s.player1_turn,
        white_win |-> whiteWins, black_win |-> over /\ ~whiteWins]

clone(s) == s

get_numpy_board(s) == <<s.n, s.player1_turn>>

OpenState(k, n, t) ==
    [kind |-> k, n |-> n, player1_turn |-> t,
     white_win |-> FALSE, black_win |-> FALSE]

OverState(k, t, w) ==
    [kind |-> k, n |-> 0, player1_turn |-> t,
     white_win |-> w, black_win |-> ~w]

StartStates ==
    {OpenState(k, n, t) : k \in {"ab", "nim", "misere"}, n \in 1..MaxPile, t \in BOOLEAN}
    \cup {OverState("nim", t, w) : t \in BOOLEAN, w \in BOOLEAN}

\* -------------------------------------------------------------- class Node
Node(mv, parent, s) ==
    [move |-> mv, parentNode |-> parent, childNodes |-> <<>>,
     wins |-> 0, visits |-> 0,
     untriedMoves |-> get_plays(s), player1_turn |-> s.player1_turn]

\* log(n) * 10^4, rounded, for n = 1..16
LnE4 == <<0, 6931, 10986, 13863, 16094, 17918, 19459, 20794,
          21972, 23026, 23979, 24849, 25649, 26391, 27081, 27726>>

\* floor of the square root, by bisection on lo..hi (a recursive function,
\* so that every level works on values)
ISqrtIn[x \in Nat, lo \in Nat, hi \in Nat] ==
    IF lo >= hi THEN lo
    ELSE LET mid == (lo + hi + 1) \div 2
         IN IF mid * mid <= x THEN ISqrtIn[x, mid, hi]
            ELSE ISqrtIn[x, lo, mid - 1]

ISqrt(x) == ISqrtIn[x, 0, 32768]

\* sqrt(2*log(N)/v) in units of 10^-4, for every N and v the table of
\* logarithms covers
ExploreE4 ==
    [N \in 1..Len(LnE4) |-> [v \in 1..Len(LnE4) |-> ISqrt((2 * LnE4[N] * 10000) \div v)]]

\* c.wins/c.visits + sqrt(2*log(self.visits)/c.visits), in units of 10^-4.
\* For parent visits up to 16 and children of one node, this orders and
\* ties the scores exactly as the floating point expression does.
UCB1(c, parentVisits) ==
    (10000 * c.wins) \div c.visits + ExploreE4[parentVisits][c.visits]

\* the arithmetic of UCB1 is defined: no division by zero, no log of zero
SelectDefined(tree, id) ==
    /\ tree[id].childNodes # <<>>
    /\ tree[id].visits >= 1
    /\ \A j \in 1..Len(tree[id].childNodes) : tree[tree[id].childNodes[j]].visits >= 1

UCTSelectChild_FirstAdded(tree, id) ==
    LET kids == tree[id].childNodes
        keyed == [j \in 1..Len(kids) |->
                    <<UCB1(tree[kids[Len(kids) + 1 - j]], tree[id].visits),
                      kids[Len(kids) + 1 - j]>>]
    IN Last(sorted(keyed))[2]

UCTSelectChild(tree, id) ==
    LET kids == tree[id].childNodes
        keyed == [j \in 1..Len(kids) |->
                    <<UCB1(tree[kids[j]], tree[id].visits), kids[j]>>]
    IN Last(sorted(keyed))[2]

\* the tree after self.AddChild(m, s); the new node is Len(tree) + 1
AddChild_NoRemove(tree, id, mv, s) ==
    Append([tree EXCEPT ![id].childNodes = Append(@, Len(tree) + 1)],
           Node(mv, id, s))

AddChild(tree, id, mv, s) ==
    Append([tree EXCEPT ![id].untriedMoves = ListRemove(@, mv),
                        ![id].childNodes = Append(@, Len(tree) + 1)],
           Node(mv, id, s))

Update_NoVisit(n, result) ==
    [n EXCEPT !.wins = @ + result]

Update(n, result) ==
    [n EXCEPT !.visits = @ + 1, !.wins = @ + result]


\* ------------------------------------------------------------------ state
VARIABLES
    game,        \* UCTPlayGame: the real game; for a direct call of UCT, the caller's state
    train_data,  \* UCTPlayGame: the examples appended so far
    childNodes,  \* the list UCT returned (Node records, ascending by visits)
    m,           \* UCTPlayGame: the move chosen for this ply
    dpc,         \* UCTPlayGame: program counter ("none": UCT is called directly)
    rootstate,   \* UCT: the state searched from
    itermax,     \* UCT: the iteration budget
    i,           \* UCT: number of completed iterations
    nodes,       \* UCT: the Node objects of the tree, rootnode is nodes[1]
    node,        \* UCT: the current node, None = 0
    state,       \* UCT: the working clone of this iteration
    upc,         \* UCT: program counter
    stateObj,    \* UCT: the object the name state is bound to
    iterBase,    \* history: nodes as they were when the current iteration began
    leaf,        \* history: the node backpropagation of this iteration started from
    callNo,      \* history: number of calls of UCT so far
    born,        \* history: born[id] is the call of UCT that constructed nodes[id]
    played       \* history: <<position before the move, move>> of every line 132

vars == <<game, train_data, childNodes, m, dpc, rootstate, itermax, i,
          nodes, node, state, upc, stateObj, iterBase, leaf, callNo, born, played>>

driverVars == <<game, train_data, m, dpc>>

recordVars == <<train_data, m, dpc>>

\* the game objects a name can be bound to: the one the caller passed as
\* rootstate (in UCTPlayGame it is game itself) and the copy clone() made
RootObj == "rootstate"
CloneObj == "clone"

\* the object rootstate.clone() returns
clone_obj(obj) == CloneObj

\* line 75: the object the right-hand side of state = rootstate.clone() yields
WorkingState_NoClone(obj) == obj

WorkingState(obj) == clone_obj(obj)

rootnode == 1

Init ==
    /\ game \in StartStates
    /\ rootstate = game
    /\ train_data = <<>>
    /\ childNodes = <<>>
    /\ m = NoMove
    /\ nodes = <<>>
    /\ node = None
    /\ state = game
    /\ i = 0
    /\ stateObj = "unbound"
    /\ iterBase = <<>>
    /\ leaf = None
    /\ callNo = 0
    /\ born = <<>>
    /\ played = <<>>
    /\ \/ dpc = "none" /\ upc = "call" /\ itermax \in 0..MaxIter
       \/ dpc = "while" /\ upc = "idle" /\ itermax = 0

\* -------------------------------------------------------------------- UCT
\* line 71: rootnode = Node(state = rootstate); the tree of this call, given
\* the Node objects of the call before
NewTree_Reuse(old, s) == IF old = <<>> THEN <<Node(NoMove, None, s)>> ELSE old

NewTree(old, s) == <<Node(NoMove, None, s)>>

UCTEnter ==
    /\ upc = "call"
    /\ nodes' = NewTree(nodes, rootstate)
    /\ i' = 0
    /\ node' = None
    /\ upc' = "for"
    /\ iterBase' = <<>>
    /\ leaf' = None
    /\ callNo' = callNo + 1
    /\ born' = <<callNo + 1>>
    /\ UNCHANGED <<driverVars, childNodes, rootstate, itermax, state, stateObj, played>>

\* line 73: range(itermax) still has a value for the k-th iteration (k from 0)
InRange_Inclusive(k, n) == k <= n

InRange(k, n) == k < n

\* lines 73-75: for i in range(itermax): node = rootnode; state = rootstate.clone()
ForIter ==
    /\ upc = "for"
    /\ IF InRange(i, itermax)
       THEN /\ node' = rootnode
            /\ state' = clone(rootstate)
            /\ stateObj' = WorkingState(RootObj)
            /\ iterBase' = nodes
            /\ leaf' = None
            /\ upc' = "select"
       ELSE /\ upc' = "return"
            /\ UNCHANGED <<node, state, stateObj, iterBase, leaf>>
    /\ UNCHANGED <<driverVars, childNodes, rootstate, itermax, i, nodes, callNo, born, played>>

\* state.exec_move(mv) at lines 80, 85 and 90: the object state is bound to
\* moves on; when that object is the caller's, rootstate and game move with it
ExecOnState(mv) ==
    LET s2 == exec_move(state, mv)
    IN /\ state' = s2
       /\ IF stateObj = RootObj
          THEN rootstate' = s2 /\ game' = s2
          ELSE UNCHANGED <<rootstate, game>>

\* lines 78-80: one test of the Select loop, and its body when the test holds
SelectCond(n) == n.untriedMoves = <<>> /\ n.childNodes # <<>>

SelectStep ==
    /\ upc = "select"
    /\ IF SelectCond(nodes[node])
       THEN IF SelectDefined(nodes, node)
            THEN LET s == UCTSelectChild(nodes, node)
                 IN /\ node' = s
                    /\ ExecOnState(nodes[s].move)
                    /\ upc' = "select"
            ELSE /\ upc' = "ZeroDivisionError"
                 /\ UNCHANGED <<node, state, rootstate, game>>
       ELSE /\ upc' = "expand"
            /\ UNCHANGED <<node, state, rootstate, game>>
    /\ UNCHANGED <<recordVars, childNodes, itermax, i, nodes, stateObj, iterBase, leaf,
                   callNo, born, played>>

\* lines 83-86: Expand
Expand ==
    /\ upc = "expand"
    /\ IF nodes[node].untriedMoves # <<>>
       THEN \E k \in 1..Len(nodes[node].untriedMoves) :
                LET mv == nodes[node].untriedMoves[k]
                IN /\ ExecOnState(mv)
                   /\ nodes' = AddChild(nodes, node, mv, exec_move(state, mv))
                   /\ node' = Len(nodes) + 1
                   /\ leaf' = Len(nodes) + 1
                   /\ born' = Append(born, callNo)
       ELSE /\ leaf' = node
            /\ UNCHANGED <<state, rootstate, game, nodes, node, born>>
    /\ upc' = "rollout"
    /\ UNCHANGED <<recordVars, childNodes, itermax, i, stateObj, iterBase, callNo, played>>

\* lines 89-90: one test of the Rollout loop, and its body when the test holds
Rollout ==
    /\ upc = "rollout"
    /\ IF state.white_win = FALSE /\ state.black_win = FALSE
       THEN /\ \E k \in 1..Len(get_plays(state)) :
                 ExecOnState(get_plays(state)[k])
            /\ upc' = "rollout"
       ELSE /\ upc' = "backprop"
            /\ UNCHANGED <<state, rootstate, game>>
    /\ UNCHANGED <<recordVars, childNodes, itermax, i, nodes, node, stateObj, iterBase, leaf,
                   callNo, born, played>>

\* lines 95-98: the value handed to Update
Result_Signed(s) == Bool2Int(s.white_win) - Bool2Int(s.black_win)

Result(s) ==
    IF s.player1_turn = TRUE THEN Bool2Int(s.white_win) ELSE Bool2Int(s.black_win)

\* line 99: node = node.parentNode
NextUp_Stop(n) == None

NextUp(n) == n.parentNode

\* lines 93-99: one test of the Backpropagate loop, and its body when the test
\* holds; when it fails the iteration is complete
Backprop ==
    /\ upc = "backprop"
    /\ IF node # None
       THEN /\ nodes' = [nodes EXCEPT ![node] = Update(@, Result(state))]
            /\ node' = NextUp(nodes[node])
            /\ UNCHANGED <<i, upc>>
       ELSE /\ i' = i + 1
            /\ upc' = "for"
            /\ UNCHANGED <<nodes, node>>
    /\ UNCHANGED <<driverVars, childNodes, rootstate, itermax, state, stateObj, iterBase, leaf,
                   callNo, born, played>>

\* line 105: return sorted(rootnode.childNodes, key = lambda c: c.visits)
RankByVisits(tree) ==
    LET kids == tree[rootnode].childNodes
        keyed == [j \in 1..Len(kids) |-> <<tree[kids[j]].visits, tree[kids[j]]>>]
        srt == sorted(keyed)
    IN [j \in 1..Len(srt) |-> srt[j][2]]

UCTReturn ==
    /\ upc = "return"
    /\ childNodes' = RankByVisits(nodes)
    /\ upc' = "returned"
    /\ dpc' = IF dpc = "in_uct" THEN "pick" ELSE dpc
    /\ UNCHANGED <<game, train_data, m, rootstate, itermax, i, nodes, node, state, stateObj,
                   iterBase, leaf, callNo, born, played>>

\* ------------------------------------------------------------ UCTPlayGame
\* line 115: the test of the game loop; line 116: the call of UCT; lines 134-141
GameOn_Always(g) == TRUE

GameOn(g) == g.white_win = FALSE /\ g.black_win = FALSE

PlayWhile ==
    /\ dpc = "while"
    /\ IF GameOn(game)
       THEN /\ rootstate' = game
            /\ itermax' = PlayIterMax
            /\ upc' = "call"
            /\ dpc' = "in_uct"
       ELSE /\ dpc' = "done"
            /\ UNCHANGED <<rootstate, itermax, upc>>
    /\ UNCHANGED <<game, train_data, childNodes, m, i, nodes, node, state, stateObj,
                   iterBase, leaf, callNo, born, played>>

\* line 117: m = childNodes[-1].move
ChosenMove_First(ranked) == ranked[1].move

ChosenMove(ranked) == Last(ranked).move

PlayPick ==
    /\ dpc = "pick"
    /\ IF childNodes = <<>>
       THEN /\ dpc' = "IndexError"
            /\ UNCHANGED m
       ELSE /\ m' = ChosenMove(childNodes)
            /\ dpc' = "record"
    /\ UNCHANGED <<game, train_data, childNodes, rootstate, itermax, i, nodes, node,
                   state, upc, stateObj, iterBase, leaf, callNo, born, played>>

\* lines 123-128: the training example of this ply
Sentinel == -1
\* a win rate wins/visits is kept as the pair <<wins, visits>>
Policy_ByRank(ranked) ==
    [idx \in 0..(K - 1) |->
        IF idx + 1 <= Len(ranked)
        THEN <<ranked[idx + 1].wins, ranked[idx + 1].visits>>
        ELSE <<Sentinel, 1>>]

Policy(ranked) ==
    [idx \in 0..(K - 1) |->
        IF \E j \in 1..Len(ranked) : ranked[j].move = idx
        THEN LET j == CHOOSE j \in 1..Len(ranked) :
                        /\ ranked[j].move = idx
                        /\ \A h \in (j + 1)..Len(ranked) : ranked[h].move # idx
             IN <<ranked[j].wins, ranked[j].visits>>
        ELSE <<Sentinel, 1>>]

\* lines 123 and 128: the example built from the ranked list and the game
Example_AfterMove(ranked, g) ==
    [prob |-> Policy(ranked), state |-> get_numpy_board(exec_move(g, ChosenMove(ranked)))]

Example(ranked, g) ==
    [prob |-> Policy(ranked), state |-> get_numpy_board(g)]

PlayRecord ==
    /\ dpc = "record"
    /\ train_data' = Append(train_data, Example(childNodes, game))
    /\ dpc' = "exec"
    /\ UNCHANGED <<game, childNodes, m, rootstate, itermax, i, nodes, node, state, upc,
                   stateObj, iterBase, leaf, callNo, born, played>>

\* line 132: game.exec_move(m)
PlayExec ==
    /\ dpc = "exec"
    /\ game' = exec_move(game, m)
    /\ played' = Append(played, <<game, m>>)
    /\ dpc' = "while"
    /\ UNCHANGED <<train_data, childNodes, m, rootstate, itermax, i, nodes, node, state,
                   upc, stateObj, iterBase, leaf, callNo, born>>

Next ==
    \/ UCTEnter
    \/ ForIter
    \/ SelectStep
    \/ Expand
    \/ Rollout
    \/ Backprop
    \/ UCTReturn
    \/ PlayWhile
    \/ PlayPick
    \/ PlayRecord
    \/ PlayExec

Spec == Init /\ [][Next]_vars

\* ----------------------------------------------------------------- claims
\* an iteration is complete and none is under way
BetweenIterations == upc \in {"for", "return", "returned"}

RECURSIVE SumVisits(_, _)
SumVisits(tree, ids) ==
    IF ids = <<>> THEN 0 ELSE tree[Head(ids)].visits + SumVisits(tree, Tail(ids))

FullyExpanded(n) == n.untriedMoves = <<>>

\* C1 (as stated): after any number of completed iterations, every node with
\* empty untried_moves, the root and the nodes of terminal positions
\* included, has children whose visit counts sum to its own count minus 1.
C1_AsStated ==
    (BetweenIterations /\ i >= 1) =>
        \A id \in 1..Len(nodes) :
            FullyExpanded(nodes[id]) =>
                SumVisits(nodes, nodes[id].childNodes) = nodes[id].visits - 1

\* C1 (amended): after any number of completed iterations, every node with
\* empty untried_moves and at least one child has children whose visit
\* counts sum to its own count minus 1 when it is not the root, and to its
\* own count when it is the root.
C1_ChildVisitSum ==
    BetweenIterations =>
        \A id \in 1..Len(nodes) :
            (FullyExpanded(nodes[id]) /\ nodes[id].childNodes # <<>>) =>
                SumVisits(nodes, nodes[id].childNodes)
                    = nodes[id].visits - (IF id = rootnode THEN 0 ELSE 1)

C1_Witness ==
    /\ BetweenIterations
    /\ i >= 3
    /\ \E id \in 2..Len(nodes) :
          /\ FullyExpanded(nodes[id])
          /\ Len(nodes[id].childNodes) >= 1
          /\ nodes[id].visits >= 2
    /\ FullyExpanded(nodes[rootnode])
    /\ Len(nodes[rootnode].childNodes) >= 2

\* C2: at every selection point of Search the node has a child, every child
\* has visit_count >= 1 and the node has visit_count >= 1, so the UCB1
\* score divides by no zero and takes no log of zero.
C2_SelectionDefined ==
    /\ upc # "ZeroDivisionError"
    /\ (upc = "select" /\ SelectCond(nodes[node])) => SelectDefined(nodes, node)

C2_Witness ==
    /\ upc = "select"
    /\ node # rootnode
    /\ SelectCond(nodes[node])
    /\ SelectDefined(nodes, node)

\* C3 (as stated): in the two-move game with player 1 to move, where A wins
\* at once for player 1 and B loses at once, Search with itermax >= 2
\* returns A's child with a strictly higher win rate than B's child.
TwoMoveRoot == OpenState("ab", 1, TRUE)

C3_AsStated ==
    (upc = "returned" /\ rootstate = TwoMoveRoot /\ itermax >= 2) =>
        \E a, b \in 1..Len(childNodes) :
            /\ childNodes[a].move = MoveA
            /\ childNodes[b].move = MoveB
            /\ childNodes[a].wins * childNodes[b].visits
                  > childNodes[b].wins * childNodes[a].visits

\* C4 (as stated): in the same two-move game, once the budget is large
\* enough (3 iterations and more here) A's child has the strictly higher
\* visit count at the return of Search and is the last element of the
\* ranking, and UCTPlayGame plays A as the first ply of the real game.
C4_AsStated ==
    /\ (upc = "returned" /\ rootstate = TwoMoveRoot /\ itermax >= 3) =>
          /\ \E a, b \in 1..Len(childNodes) :
                /\ childNodes[a].move = MoveA
                /\ childNodes[b].move = MoveB
                /\ childNodes[a].visits > childNodes[b].visits
          /\ Last(childNodes).move = MoveA
    /\ (dpc \in {"record", "exec"} /\ train_data = <<>> /\ game = TwoMoveRoot) =>
          m = MoveA

\* the terminal state s is a win for player 1 (p1 = TRUE) or player 2
WinFor(p1, s) == IF p1 THEN s.white_win ELSE s.black_win

\* C5 (as stated): every Update of a non-root node during backpropagation
\* adds 1 to wins exactly when the terminal state of the simulation is a win
\* for the player who made node.move (the player to move at the parent),
\* and 0 otherwise.
C5_AsStated ==
    [][(upc = "backprop" /\ node # None /\ nodes[node].parentNode # None) =>
          nodes'[node].wins - nodes[node].wins
              = Bool2Int(WinFor(nodes[nodes[node].parentNode].player1_turn, state))]_vars

\* the node id and its ancestors up to the root
RECURSIVE PathToRoot(_, _)
PathToRoot(tree, id) ==
    IF id = None THEN {} ELSE {id} \cup PathToRoot(tree, tree[id].parentNode)

\* the statistics node id had when the iteration began (a node created by
\* this iteration began at 0/0)
VisitsBefore(id) == IF id <= Len(iterBase) THEN iterBase[id].visits ELSE 0
WinsBefore(id) == IF id <= Len(iterBase) THEN iterBase[id].wins ELSE 0

BackpropComplete == upc = "backprop" /\ node = None

C7_WinsWithinVisits ==
    \A id \in 1..Len(nodes) :
        /\ 0 <= nodes[id].wins
        /\ nodes[id].wins <= nodes[id].visits

C7_Witness ==
    /\ \E id \in 1..Len(nodes) : nodes[id].wins = nodes[id].visits /\ nodes[id].visits >= 2
    /\ \E id \in 2..Len(nodes) : 0 < nodes[id].wins /\ nodes[id].wins < nodes[id].visits
    /\ \E id \in 1..Len(nodes) : nodes[id].wins = 0 /\ nodes[id].visits >= 1

\* C8: UCTPlayGame never indexes an empty list: the list it gets from UCT has
\* an element whenever it is indexed, and when the game is over at the test
\* of the loop it stops there, without a search and without a new example.
C8_NoEmptyIndexing ==
    /\ [](/\ dpc # "IndexError"
          /\ dpc = "pick" => childNodes # <<>>
          /\ (dpc = "done" /\ upc = "idle") => train_data = <<>>)
    /\ [][(dpc = "while" /\ Terminal(game)) =>
             (dpc' = "done" /\ train_data' = train_data /\ upc' = upc)]_vars

C8_Witness ==
    /\ dpc = "done"
    /\ upc = "idle"
    /\ Terminal(game)
    /\ train_data = <<>>

\* C9: Search from a terminal root_state completes all its iterations without
\* error, creates no node but the root, updates the root once per iteration
\* with the same outcome, and returns an empty list.
C9_TerminalRoot ==
    (Terminal(rootstate) /\ upc \notin {"idle", "call"}) =>
        /\ upc \in {"for", "select", "expand", "rollout", "backprop", "return", "returned"}
        /\ Len(nodes) = 1
        /\ nodes[rootnode].childNodes = <<>>
        /\ i <= itermax
        /\ BetweenIterations =>
              /\ nodes[rootnode].visits = i
              /\ nodes[rootnode].wins = i * Result(rootstate)
        /\ upc = "returned" =>
              /\ i = itermax
              /\ nodes[rootnode].visits = itermax
              /\ childNodes = <<>>

C9_Witness ==
    /\ Terminal(rootstate)
    /\ upc = "returned"
    /\ itermax >= 2
    /\ nodes[rootnode].visits = itermax
    /\ nodes[rootnode].wins = itermax

\* C10: Search returns exactly the children of the root, each once, in
\* ascending order of visits; the move UCTPlayGame applies to the real game
\* is the move of the last element, whose visits are >= those of every
\* other child of the root.
RootChildren == [j \in 1..Len(nodes[rootnode].childNodes) |->
                    nodes[nodes[rootnode].childNodes[j]]]

LastProb == Last(train_data).prob

NonSentinel(prob) == {idx \in DOMAIN prob : prob[idx] # <<Sentinel, 1>>}

\* C11: for a ply searched from a non-terminal state with budget I, the
\* policy vector of the example has length K, holds wins/visits of the root
\* child at the index of that child's move for every root child and the
\* sentinel -1.0 at every other index; so its non-sentinel entries are as
\* many as the root children created, at most min(I, legal moves at the root).
C11_PolicyVector ==
    dpc = "exec" =>
        /\ DOMAIN LastProb = 0..(K - 1)
        /\ \A j \in 1..Len(RootChildren) :
              LastProb[RootChildren[j].move]
                  = <<RootChildren[j].wins, RootChildren[j].visits>>
        /\ \A idx \in 0..(K - 1) :
              (\A j \in 1..Len(RootChildren) : RootChildren[j].move # idx)
                  => LastProb[idx] = <<Sentinel, 1>>
        /\ Cardinality(NonSentinel(LastProb)) = Len(RootChildren)
        /\ Len(RootChildren) <= Min(itermax, Len(get_plays(game)))

C11_Witness ==
    /\ dpc = "exec"
    /\ Len(train_data) >= 2
    /\ NonSentinel(LastProb) # {}
    /\ \E idx \in 0..(K - 1) : LastProb[idx] = <<Sentinel, 1>>

\* a call of UCT has constructed its root and has not been followed by another
InSearch == upc \notin {"idle", "call"}

\* C13 (as stated): during one Search call at most itermax nodes are ever
\* created.
C13_AsStated ==
    InSearch => Len(nodes) <= itermax

\* C13 (amended): during one Search call at most itermax nodes are created
\* besides the root that Search constructs on entry: an iteration performs at
\* most one Expand, an Expand creates exactly one node, and no other step of
\* the search creates a node.
C13_NodesCreated ==
    /\ [](InSearch =>
            /\ Len(nodes) - 1 <= itermax
            /\ Len(nodes) - 1 <= i + 1
            /\ BetweenIterations => Len(nodes) - 1 <= i
            /\ upc \in {"select", "expand", "rollout", "backprop"} =>
                  Len(nodes) <= Len(iterBase) + 1)
    /\ [][upc # "call" =>
             \/ Len(nodes') = Len(nodes)
             \/ /\ upc = "expand"
                /\ nodes[node].untriedMoves # <<>>
                /\ Len(nodes') = Len(nodes) + 1]_vars

C13_Witness ==
    /\ upc = "returned"
    /\ itermax >= 3
    /\ Len(nodes) - 1 = itermax

\* The program is one thread that always takes its next step.
FairSpec == Spec /\ WF_vars(Next)

\* C14: with a game in which every sequence of legal moves ends within a
\* bounded number of plies and only terminal states have no legal move,
\* every call of Search completes exactly itermax iterations and returns,
\* and UCTPlayGame eventually returns with the real game terminal.
C14_Termination ==
    /\ (upc = "call") ~> (upc = "returned" /\ i = itermax)
    /\ (dpc = "while") ~> (dpc = "done" /\ Terminal(game))

C14_Witness ==
    /\ dpc = "done"
    /\ Terminal(game)
    /\ upc = "returned"
    /\ i = itermax
    /\ Len(played) >= 3

\* C15: Search called with itermax = 0 returns an empty list; the root has no
\* children and visits 0.
C15_ZeroIterations ==
    (upc = "returned" /\ itermax = 0) =>
        /\ childNodes = <<>>
        /\ i = 0
        /\ Len(nodes) = 1
        /\ nodes[rootnode].childNodes = <<>>
        /\ nodes[rootnode].visits = 0
        /\ nodes[rootnode].wins = 0

C15_Witness ==
    /\ upc = "returned"
    /\ itermax = 0
    /\ ~Terminal(rootstate)
    /\ Len(get_plays(rootstate)) >= 2
    /\ childNodes = <<>>

\* the set of the elements of a list
Elems(s) == {s[j] : j \in 1..Len(s)}

ChildMoves(tree, id) == [j \in 1..Len(tree[id].childNodes) |-> tree[tree[id].childNodes[j]].move]

\* the position of node id: rootstate with the moves on the path from the
\* root to id applied in order
RECURSIVE PositionOf(_, _)
PositionOf(tree, id) ==
    IF tree[id].parentNode = None THEN rootstate
    ELSE exec_move(PositionOf(tree, tree[id].parentNode), tree[id].move)

\* C16: for every node at every point of a Search, the untried moves and the
\* moves of the children are disjoint, the children's moves are pairwise
\* distinct, together they are exactly the legal moves of the node's
\* position, and untried_moves never gains a move: each Expand removes
\* exactly the expanded move and appends exactly one child.
C16_MovePartition ==
    /\ [](InSearch =>
            \A id \in 1..Len(nodes) :
                /\ Elems(nodes[id].untriedMoves) \cap Elems(ChildMoves(nodes, id)) = {}
                /\ Cardinality(Elems(ChildMoves(nodes, id))) = Len(nodes[id].childNodes)
                /\ Cardinality(Elems(nodes[id].untriedMoves)) = Len(nodes[id].untriedMoves)
                /\ Elems(nodes[id].untriedMoves) \cup Elems(ChildMoves(nodes, id))
                      = Elems(get_plays(PositionOf(nodes, id))))
    /\ [][upc # "call" =>
            /\ \A id \in 1..Len(nodes) :
                  /\ Elems(nodes'[id].untriedMoves) \subseteq Elems(nodes[id].untriedMoves)
                  /\ id # node => nodes'[id].untriedMoves = nodes[id].untriedMoves
            /\ Len(nodes') > Len(nodes) =>
                  /\ nodes'[Len(nodes')].move \in Elems(nodes[node].untriedMoves)
                  /\ Elems(nodes'[node].untriedMoves)
                        = Elems(nodes[node].untriedMoves) \ {nodes'[Len(nodes')].move}
                  /\ nodes'[node].childNodes = Append(nodes[node].childNodes, Len(nodes'))]_vars

C16_Witness ==
    /\ upc = "rollout"
    /\ leaf # rootnode
    /\ Len(nodes) > Len(iterBase)
    /\ nodes[leaf].parentNode # rootnode
    /\ nodes[nodes[leaf].parentNode].untriedMoves # <<>>
    /\ Len(nodes[nodes[leaf].parentNode].childNodes) = 1

\* the UCB1 score of the j-th child of node id
ChildScore(tree, id, j) == UCB1(tree[tree[id].childNodes[j]], tree[id].visits)

\* the indices of the children of node id whose UCB1 score is maximal
MaxScored(tree, id) ==
    {j \in 1..Len(tree[id].childNodes) :
        \A h \in 1..Len(tree[id].childNodes) : ChildScore(tree, id, h) <= ChildScore(tree, id, j)}

\* a step of the selection loop: line 79 has run on the node that was current
Selecting == upc = "select" /\ SelectCond(nodes[node]) /\ upc' = "select"

\* C17: UCTSelectChild returns a child whose UCB1 score is maximal among the
\* node's children; when several children tie for the maximal score it
\* returns the one added most recently; it modifies no node.
C17_SelectMaxUCB1 ==
    [][Selecting =>
          /\ \E j \in MaxScored(nodes, node) :
                /\ node' = nodes[node].childNodes[j]
                /\ \A h \in MaxScored(nodes, node) : h <= j
          /\ nodes' = nodes]_vars

C17_Witness ==
    /\ upc = "select"
    /\ node # rootnode
    /\ nodes[node].parentNode = rootnode
    /\ Cardinality(MaxScored(nodes, rootnode)) >= 2
    /\ node = nodes[rootnode].childNodes[CHOOSE j \in MaxScored(nodes, rootnode) :
                                             \A h \in MaxScored(nodes, rootnode) : h <= j]

\* C18: in UCTPlayGame a fresh tree is built for every ply and no statistics
\* carry over: at the return of each ply's UCT call from a non-terminal
\* position, the root's visits equal the iteration budget of that single call
\* and every node of the tree was created during that call.
C18_FreshTreePerPly ==
    (dpc = "pick" /\ upc = "returned" /\ ~Terminal(rootstate)) =>
        /\ nodes[rootnode].visits = itermax
        /\ Len(born) = Len(nodes)
        /\ \A id \in 1..Len(nodes) : born[id] = callNo

C18_Witness ==
    /\ dpc = "pick"
    /\ upc = "returned"
    /\ ~Terminal(rootstate)
    /\ callNo >= 2
    /\ itermax >= 2
    /\ Len(nodes) >= 3
    /\ nodes[rootnode].visits = itermax

\* C19: UCTPlayGame produces exactly one training example per ply played, in
\* ply order: the k-th example's board encoding is the encoding of the real
\* game position before the k-th move is applied, the example is appended
\* before that move is applied, and at the return the number of examples
\* equals the number of moves applied to the real game.
C19_OneExamplePerPly ==
    dpc # "none" =>
        /\ Len(train_data) = Len(played) + Bool2Int(dpc = "exec")
        /\ \A k \in 1..Len(played) : train_data[k].state = get_numpy_board(played[k][1])
        /\ dpc = "exec" => Last(train_data).state = get_numpy_board(game)
        /\ dpc = "done" => Len(train_data) = Len(played)

C19_Witness ==
    /\ dpc = "done"
    /\ Len(played) >= 3
    /\ Len(train_data) = Len(played)
    /\ train_data[1].state # train_data[2].state
    /\ train_data[3].state = get_numpy_board(played[3][1])

\* a step taken inside a call of UCT
UCTStep == dpc \in {"none", "in_uct"}

\* C20: UCT never changes the rootstate it is given: every move of Select,
\* Expand and Rollout is applied to the per-iteration clone, so the real game
\* position is the same before and after each UCT call, and across a whole
\* UCTPlayGame the real game advances by exactly one move per ply, the one
\* the driver chose.
C20_RootStateFrame ==
    [][/\ UCTStep => (rootstate' = rootstate /\ game' = game /\ stateObj' # RootObj)
       /\ state' # state => stateObj = CloneObj
       /\ game' # game => dpc = "exec"
       /\ dpc = "exec" => (game' = exec_move(game, m) /\ m = ChosenMove(childNodes))]_vars

C20_Witness ==
    /\ dpc = "in_uct"
    /\ upc = "backprop"
    /\ Len(played) >= 1
    /\ stateObj = CloneObj
    /\ Terminal(state)
    /\ ~Terminal(rootstate)
    /\ rootstate = game
    /\ game = exec_move(played[Len(played)][1], played[Len(played)][2])

====
